---- MODULE Spec2Model ----
(***************************************************************************)
(* Model of phase1-wasm/src/phase1.rs: the two host-facing entry points    *)
(* Phase1WASM::contribute_full and Phase1WASM::contribute_chunked, and the *)
(* sequential protocol contribute_challenge they both run.                 *)
(*                                                                         *)
(* Each entry-point invocation is a "call" c.  The caller's thread of      *)
(* control is pc[c]; the closure handed to thread_pool.install is the work *)
(* unit wu[c]; the position inside contribute_challenge is cc[c].          *)
(* The collaborators whose code lives in other crates of the repository    *)
(* (selector tables, Phase1Parameters, calculate_hash, the RNG             *)
(* constructors, Phase1::key_generation, Phase1::computation,              *)
(* PublicKey::write) are modelled from their documented contracts.         *)
(***************************************************************************)
EXTENDS Integers, Sequences, FiniteSets, TLC

\* ------------------------------------------------------------- bounds
\* Bytes are 0..MaxByte.
MaxByte == 1
\* Length of a digest returned by calculate_hash.
HashLen == 3
\* Largest exponent `power` a caller passes.
MaxPower == 1
\* RNG states are 0..MaxRng.
MaxRng == 1
\* Largest thread_pool_size a caller passes.
MaxLanes == 2
\* Largest chunk_index a caller passes.
MaxChunkIndex == 1
\* Largest chunk_size a caller passes.
MaxChunkSize == 2

Calls == {1, 2}
Byte == 0..MaxByte
ByteMod == MaxByte + 1
RngStates == 0..MaxRng

\* ------------------------------------------------------------ helpers
RECURSIVE SumSeq(_)
SumSeq(s) == IF s = <<>> THEN 0 ELSE Head(s) + SumSeq(Tail(s))

RECURSIVE Count(_, _)
Count(s, e) ==
    IF s = <<>> THEN 0 ELSE (IF Head(s) = e THEN 1 ELSE 0) + Count(Tail(s), e)

\* Index of the first occurrence of e in s, 0 when absent.
RECURSIVE IndexFrom(_, _, _)
IndexFrom(s, e, i) ==
    IF i > Len(s) THEN 0 ELSE IF s[i] = e THEN i ELSE IndexFrom(s, e, i + 1)

IndexOf(s, e) == IndexFrom(s, e, 1)

\* ------------------------------------------------- compression policy
COMPRESSED_INPUT == "No"
COMPRESSED_OUTPUT == "Yes"
CHECK_INPUT_CORRECTNESS == "No"

\* ---------------------------------------------------------- selectors
CurveTokens == {"bls12_377", "bw6", "ed25519"}
ProvingSystemTokens == {"groth16", "marlin", "plonk"}
NoKind == "unknown"

\* phase1::helpers::curve_from_str: exact match against the closed set.
curve_from_str(token) ==
    CASE token = "bls12_377" -> "Bls12_377"
      [] token = "bw6" -> "BW6"
      [] OTHER -> NoKind

\* phase1::helpers::proving_system_from_str.
proving_system_from_str(token) ==
    CASE token = "groth16" -> "Groth16"
      [] token = "marlin" -> "Marlin"
      [] OTHER -> NoKind

\* ------------------------------------------------- parameter deriver
NoParameters == [accumulator_size |-> 0, contribution_size |-> 0,
                 public_key_size |-> 0, valid |-> FALSE]

\* Phase1Parameters::new for a window of `elements` powers: the three byte
\* sizes are pure functions of (curve, proving system, window).  The
\* accumulator is uncompressed, the contribution is the compressed
\* accumulator followed by the compressed public key.
Phase1ParametersNew(curve, proving_system, elements) ==
    LET acc == elements + (IF proving_system = "Marlin" THEN 1 ELSE 0)
    IN  [accumulator_size |-> acc,
         contribution_size |-> acc + 1,
         public_key_size |-> IF curve = "BW6" THEN 3 ELSE 2,
         valid |-> TRUE]

\* get_parameters_full::<E>(proving_system, power, batch_size)
get_parameters_full(curve, proving_system, power, batch_size) ==
    Phase1ParametersNew(curve, proving_system, power + 1)

\* The window [chunk_index * chunk_size, +chunk_size) cut to the power + 1
\* elements there are; empty when it starts beyond them.
ChunkWindow(power, chunk_index, chunk_size) ==
    LET total == power + 1
        first == chunk_index * chunk_size
    IN  IF first >= total THEN 0
        ELSE IF first + chunk_size > total THEN total - first ELSE chunk_size

\* get_parameters_chunked::<E>(proving_system, power, batch_size,
\* chunk_index, chunk_size); a window that is not representable makes the
\* deriver panic, shown here as valid = FALSE.
get_parameters_chunked(curve, proving_system, power, batch_size, chunk_index, chunk_size) ==
    IF ChunkWindow(power, chunk_index, chunk_size) = 0 THEN NoParameters
    ELSE Phase1ParametersNew(curve, proving_system,
                             ChunkWindow(power, chunk_index, chunk_size))

\* --------------------------------------------------------------- hash
\* setup_utils::calculate_hash: a fixed-size digest of HashLen bytes, each a
\* position-weighted checksum of the input.
RECURSIVE WeightedSum(_, _, _)
WeightedSum(s, i, k) ==
    IF i > Len(s) THEN 0 ELSE (s[i] + 1) * (i + k) + WeightedSum(s, i + 1, k)

calculate_hash(bytes) ==
    [k \in 1..HashLen |-> (WeightedSum(bytes, 1, k) + Len(bytes) + k) % ByteMod]

\* ---------------------------------------------------------------- rng
Seeds == {<<b>> : b \in Byte}

\* setup_utils::derive_rng_from_seed: a deterministic function of the seed.
derive_rng_from_seed(seed) == (SumSeq(calculate_hash(seed)) + SumSeq(seed)) % (MaxRng + 1)

\* setup_utils::get_rng(&user_system_randomness()): the generator seeded with
\* the bytes the system's entropy source returned.
get_rng(system_randomness) == SumSeq(system_randomness) % (MaxRng + 1)

\* One draw from the generator: the value drawn and the state it leaves.
RngDraw(state) == [value |-> state, next |-> (state + 1) % (MaxRng + 1)]

\* ------------------------------------------------------------- engine
\* The engine a call runs against fails in at most one of its three
\* operations, or in none; which, shows when the call first reaches it.
EngineFaults == {"none", "key_generation", "computation", "write"}
NoEngine == "not reached"

NoKeyPair == [public |-> 0, private |-> 0, present |-> FALSE]

\* Phase1::key_generation(&mut rng, digest): the key pair is a function of
\* the value drawn from the rng and of the digest used as context.
key_generation(value, digest) ==
    LET private == (value + SumSeq(digest)) % ByteMod
    IN  [public |-> (private + 1) % ByteMod, private |-> private, present |-> TRUE]

\* The compressed public key takes the last byte of a compressed output.
KeyRegion(buffer) == Len(buffer)

\* Phase1::computation(&challenge, &mut response, ..., &private_key, ..):
\* overwrites the accumulator part of the buffer in place, length unchanged.
computation(challenge, buffer, private_key) ==
    [i \in 1..Len(buffer) |->
        IF i < KeyRegion(buffer) /\ Len(challenge) > 0
        THEN (challenge[((i - 1) % Len(challenge)) + 1] + private_key + i) % ByteMod
        ELSE buffer[i]]

\* PublicKey::write(&mut response, COMPRESSED_OUTPUT, &parameters): embeds
\* the key in its region of the buffer, length unchanged.
public_key_write(buffer, public_key) ==
    [i \in 1..Len(buffer) |-> IF i = KeyRegion(buffer) THEN public_key ELSE buffer[i]]

\* ------------------------------------------------------------- inputs
\* Challenges: every length from 0 to one more than the largest accumulator,
\* all zero or counting up from 1.
MaxChallengeLen == (MaxPower + 1) + 1 + 1

Challenges ==
    {[i \in 1..n |-> (i * s) % ByteMod] : n \in 0..MaxChallengeLen, s \in 0..1}

FullArgs ==
    [mode : {"full"}, curve_kind : CurveTokens, proving_system : ProvingSystemTokens,
     batch_size : {1}, power : 0..MaxPower, chunk_index : {0}, chunk_size : {0},
     seed : {<<>>}, system_randomness : Seeds, challenge : Challenges,
     thread_pool_size : {0}]

ChunkedArgs ==
    [mode : {"chunked"}, curve_kind : CurveTokens, proving_system : ProvingSystemTokens,
     batch_size : {1}, power : 0..MaxPower, chunk_index : 0..MaxChunkIndex,
     chunk_size : 1..MaxChunkSize, seed : Seeds, system_randomness : {<<>>},
     challenge : Challenges, thread_pool_size : 0..MaxLanes]

IdleArgs ==
    [mode |-> "idle", curve_kind |-> "bls12_377", proving_system |-> "groth16",
     batch_size |-> 1, power |-> 0, chunk_index |-> 0, chunk_size |-> 0,
     seed |-> <<>>, system_randomness |-> <<>>, challenge |-> <<>>,
     thread_pool_size |-> 0]

\* -------------------------------------------------------------- state
NoRng == -1
NoResult == [tag |-> "None", current_accumulator_hash |-> <<>>, response |-> <<>>,
             contribution_hash |-> <<>>, msg |-> <<>>]

Ok(h, r, ch) == [tag |-> "Ok", current_accumulator_hash |-> h, response |-> r,
                 contribution_hash |-> ch, msg |-> <<>>]

Err(m) == [tag |-> "Err", current_accumulator_hash |-> <<>>, response |-> <<>>,
           contribution_hash |-> <<>>, msg |-> m]

VARIABLES
    args,       \* the arguments of each entry-point invocation
    engine,     \* the fault the engine stub of the call shows
    pc,         \* position of the calling thread in the entry point
    wu,         \* position of the closure installed on the pool
    cc,         \* position inside contribute_challenge
    pool,       \* the rayon pool: lanes wanted and lanes started
    rng,        \* state of the call's random number generator
    curve,      \* the resolved curve
    proving_system, \* the resolved proving system
    parameters, \* the derived Phase1Parameters
    current_accumulator_hash,
    response,   \* the response buffer
    keypair,    \* (public_key, private_key)
    res,        \* the value contribute_challenge returned
    slot,       \* the oneshot channel: what was sent and not yet received
    ret,        \* the value the entry point returned to the host
    panic,      \* the message of the panic that ended the call, if any
    trace       \* the collaborator invocations of the call, in order

vars == <<args, engine, pc, wu, cc, pool, rng, curve, proving_system, parameters,
          current_accumulator_hash, response, keypair, res, slot, ret, panic, trace>>

NoPool == [num_threads |-> 0, lanes |-> 0, built |-> FALSE]

\* The state before any call has taken a step: call c has the arguments
\* a[c] and its caller is at p[c].
InitAt(a, p) ==
    /\ args = [c \in Calls |-> a[c]]
    /\ engine = [c \in Calls |-> NoEngine]
    /\ pc = [c \in Calls |-> p[c]]
    /\ wu = [c \in Calls |-> "none"]
    /\ cc = [c \in Calls |-> "none"]
    /\ pool = [c \in Calls |-> NoPool]
    /\ rng = [c \in Calls |-> NoRng]
    /\ curve = [c \in Calls |-> NoKind]
    /\ proving_system = [c \in Calls |-> NoKind]
    /\ parameters = [c \in Calls |-> NoParameters]
    /\ current_accumulator_hash = [c \in Calls |-> <<>>]
    /\ response = [c \in Calls |-> <<>>]
    /\ keypair = [c \in Calls |-> NoKeyPair]
    /\ res = [c \in Calls |-> NoResult]
    /\ slot = [c \in Calls |-> <<>>]
    /\ ret = [c \in Calls |-> NoResult]
    /\ panic = [c \in Calls |-> ""]
    /\ trace = [c \in Calls |-> <<>>]

\* Every call that is made waits for the host to invoke it.
InitCall(a) ==
    InitAt(a, [c \in Calls |-> IF a[c].mode = "idle" THEN "idle" ELSE "waiting"])

\* One invocation of either entry point, with any arguments; the second
\* call slot stays idle.
Init ==
    \E a \in FullArgs \cup ChunkedArgs :
        InitCall([c \in Calls |-> IF c = 1 THEN a ELSE IdleArgs])

Log(c, event) == trace' = [trace EXCEPT ![c] = Append(@, event)]

\* A call has ended: it returned to the host or it panicked.
Finished(c) == pc[c] \in {"returned", "aborted"}

\* The host invokes the entry point; it makes its calls one after the other.
Begin(c) ==
    /\ pc[c] = "waiting"
    /\ \A d \in Calls : d < c => (pc[d] = "idle" \/ Finished(d))
    /\ pc' = [pc EXCEPT ![c] = "start"]
    /\ UNCHANGED <<args, engine, wu, cc, pool, rng, curve, proving_system, parameters,
                   current_accumulator_hash, response, keypair, res, slot, ret, panic, trace>>

\* ---------------------------------------------------- contribute_full
\* let rng = get_rng(&user_system_randomness());
FullGetRng(c) ==
    /\ pc[c] = "start" /\ args[c].mode = "full"
    /\ rng' = [rng EXCEPT ![c] = get_rng(args[c].system_randomness)]
    /\ pc' = [pc EXCEPT ![c] = "resolve_proving_system"]
    /\ Log(c, "get_rng")
    /\ UNCHANGED <<args, engine, wu, cc, pool, curve, proving_system, parameters,
                   current_accumulator_hash, response, keypair, res, slot, ret, panic>>

\* proving_system_from_str(proving_system).expect("invalid proving system"),
\* in both entry points.
ResolveProvingSystem(c) ==
    /\ pc[c] = "resolve_proving_system"
    /\ IF proving_system_from_str(args[c].proving_system) = NoKind
       THEN /\ panic' = [panic EXCEPT ![c] = "invalid proving system"]
            /\ pc' = [pc EXCEPT ![c] = "aborted"]
            /\ UNCHANGED proving_system
       ELSE /\ proving_system' =
                   [proving_system EXCEPT ![c] = proving_system_from_str(args[c].proving_system)]
            /\ pc' = [pc EXCEPT ![c] =
                         IF args[c].mode = "full" THEN "resolve_curve" ELSE "channel"]
            /\ UNCHANGED panic
    /\ Log(c, "proving_system_from_str")
    /\ UNCHANGED <<args, engine, wu, cc, pool, rng, curve, parameters,
                   current_accumulator_hash, response, keypair, res, slot, ret>>

\* Mutant: an unknown curve token is returned as an error value.
FullResolveCurve_Recovered(c) ==
    /\ pc[c] = "resolve_curve"
    /\ IF curve_from_str(args[c].curve_kind) = NoKind
       THEN /\ ret' = [ret EXCEPT ![c] = Err(<<"invalid curve_kind">>)]
            /\ pc' = [pc EXCEPT ![c] = "returned"]
            /\ UNCHANGED curve
       ELSE /\ curve' = [curve EXCEPT ![c] = curve_from_str(args[c].curve_kind)]
            /\ pc' = [pc EXCEPT ![c] = "get_parameters"]
            /\ UNCHANGED ret
    /\ Log(c, "curve_from_str")
    /\ UNCHANGED <<args, engine, wu, cc, pool, rng, proving_system, parameters,
                   current_accumulator_hash, response, keypair, res, slot, panic>>

\* match curve_from_str(curve_kind).expect("invalid curve_kind")
FullResolveCurve(c) ==
    /\ pc[c] = "resolve_curve"
    /\ IF curve_from_str(args[c].curve_kind) = NoKind
       THEN /\ panic' = [panic EXCEPT ![c] = "invalid curve_kind"]
            /\ pc' = [pc EXCEPT ![c] = "aborted"]
            /\ UNCHANGED curve
       ELSE /\ curve' = [curve EXCEPT ![c] = curve_from_str(args[c].curve_kind)]
            /\ pc' = [pc EXCEPT ![c] = "get_parameters"]
            /\ UNCHANGED panic
    /\ Log(c, "curve_from_str")
    /\ UNCHANGED <<args, engine, wu, cc, pool, rng, proving_system, parameters,
                   current_accumulator_hash, response, keypair, res, slot, ret>>

\* &get_parameters_full::<E>(proving_system, power, batch_size), then the
\* call of contribute_challenge on the caller's own thread.
FullGetParameters(c) ==
    /\ pc[c] = "get_parameters"
    /\ parameters' = [parameters EXCEPT ![c] =
           get_parameters_full(curve[c], proving_system[c], args[c].power, args[c].batch_size)]
    /\ pc' = [pc EXCEPT ![c] = "contribute_challenge"]
    /\ cc' = [cc EXCEPT ![c] = "check"]
    /\ Log(c, "get_parameters_full")
    /\ UNCHANGED <<args, engine, wu, pool, rng, curve, proving_system,
                   current_accumulator_hash, response, keypair, res, slot, ret, panic>>

\* contribute_challenge's value is the value of contribute_full.
FullReturn(c) ==
    /\ pc[c] = "contribute_challenge" /\ cc[c] = "returned"
    /\ ret' = [ret EXCEPT ![c] = res[c]]
    /\ pc' = [pc EXCEPT ![c] = "returned"]
    /\ UNCHANGED <<args, engine, wu, cc, pool, rng, curve, proving_system, parameters,
                   current_accumulator_hash, response, keypair, res, slot, panic, trace>>

\* ------------------------------------------------- contribute_chunked
\* rayon's ThreadPoolBuilder::num_threads(n): n lanes when n > 0; with n = 0
\* the library chooses the number of lanes itself (d).
PoolThreads(n, d) == IF n > 0 THEN n ELSE d

\* Mutant: the proving-system token is checked before the pool is built.
ConfigurePool_SelectorFirst(c) ==
    /\ pc[c] = "start" /\ args[c].mode = "chunked"
    /\ IF proving_system_from_str(args[c].proving_system) = NoKind
       THEN /\ panic' = [panic EXCEPT ![c] = "invalid proving system"]
            /\ pc' = [pc EXCEPT ![c] = "aborted"]
            /\ Log(c, "proving_system_from_str")
            /\ UNCHANGED pool
       ELSE /\ \E d \in 1..MaxLanes :
                  pool' = [pool EXCEPT ![c] =
                              [num_threads |-> PoolThreads(args[c].thread_pool_size, d),
                               lanes |-> 0, built |-> FALSE]]
            /\ pc' = [pc EXCEPT ![c] = "build"]
            /\ UNCHANGED <<panic, trace>>
    /\ UNCHANGED <<args, engine, wu, cc, rng, curve, proving_system, parameters,
                   current_accumulator_hash, response, keypair, res, slot, ret>>

\* Mutant: the pool is built whichever entry point is called.
ConfigurePool_AnyMode(c) ==
    /\ pc[c] = "start"
    /\ \E d \in 1..MaxLanes :
          pool' = [pool EXCEPT ![c] =
                      [num_threads |-> PoolThreads(args[c].thread_pool_size, d),
                       lanes |-> 0, built |-> FALSE]]
    /\ pc' = [pc EXCEPT ![c] = "build"]
    /\ UNCHANGED <<args, engine, wu, cc, rng, curve, proving_system, parameters,
                   current_accumulator_hash, response, keypair, res, slot, ret, panic, trace>>

\* rayon::ThreadPoolBuilder::new().num_threads(thread_pool_size)
\*     .spawn_handler(..).build(): fixes the number of lanes to start.
ConfigurePool(c) ==
    /\ pc[c] = "start" /\ args[c].mode = "chunked"
    /\ \E d \in 1..MaxLanes :
          pool' = [pool EXCEPT ![c] =
                      [num_threads |-> PoolThreads(args[c].thread_pool_size, d),
                       lanes |-> 0, built |-> FALSE]]
    /\ pc' = [pc EXCEPT ![c] = "build"]
    /\ UNCHANGED <<args, engine, wu, cc, rng, curve, proving_system, parameters,
                   current_accumulator_hash, response, keypair, res, slot, ret, panic, trace>>

\* spawn_handler: Ok(worker.run(|| thread.run()).unwrap()), the host starts
\* the lane.
SpawnLane(c) ==
    /\ pc[c] = "build" /\ pool[c].lanes < pool[c].num_threads
    /\ pool' = [pool EXCEPT ![c].lanes = @ + 1]
    /\ Log(c, "worker.run")
    /\ UNCHANGED <<args, engine, pc, wu, cc, rng, curve, proving_system, parameters,
                   current_accumulator_hash, response, keypair, res, slot, ret, panic>>

\* Mutant: a lane that fails to start is left out and the pool is built
\* without it.
SpawnLaneFails_Degraded(c) ==
    /\ pc[c] = "build" /\ pool[c].lanes < pool[c].num_threads
    /\ pool' = [pool EXCEPT ![c].num_threads = @ - 1]
    /\ Log(c, "worker.run")
    /\ UNCHANGED <<args, engine, pc, wu, cc, rng, curve, proving_system, parameters,
                   current_accumulator_hash, response, keypair, res, slot, ret, panic>>

\* worker.run returns Err: the unwrap in the spawn handler panics inside
\* build().
SpawnLaneFails(c) ==
    /\ pc[c] = "build" /\ pool[c].lanes < pool[c].num_threads
    /\ panic' = [panic EXCEPT ![c] = "worker.run failed"]
    /\ pc' = [pc EXCEPT ![c] = "aborted"]
    /\ Log(c, "worker.run")
    /\ UNCHANGED <<args, engine, wu, cc, pool, rng, curve, proving_system, parameters,
                   current_accumulator_hash, response, keypair, res, slot, ret>>

\* build() returns the pool once every lane runs; then
\* let rng = derive_rng_from_seed(seed);
ChunkedDeriveRng(c) ==
    /\ pc[c] = "build" /\ pool[c].lanes = pool[c].num_threads
    /\ pool' = [pool EXCEPT ![c].built = TRUE]
    /\ rng' = [rng EXCEPT ![c] = derive_rng_from_seed(args[c].seed)]
    /\ pc' = [pc EXCEPT ![c] = "resolve_proving_system"]
    /\ Log(c, "derive_rng_from_seed")
    /\ UNCHANGED <<args, engine, wu, cc, curve, proving_system, parameters,
                   current_accumulator_hash, response, keypair, res, slot, ret, panic>>

\* let (tx, rx) = oneshot::channel(); thread_pool.install(|| ..): the
\* closure is handed to the pool and the caller blocks inside install.
Install(c) ==
    /\ pc[c] = "channel"
    /\ slot' = [slot EXCEPT ![c] = <<>>]
    /\ wu' = [wu EXCEPT ![c] = "resolve_curve"]
    /\ pc' = [pc EXCEPT ![c] = "install"]
    /\ Log(c, "install")
    /\ UNCHANGED <<args, engine, cc, pool, rng, curve, proving_system, parameters,
                   current_accumulator_hash, response, keypair, res, ret, panic>>

\* In the closure: match curve_from_str(curve_kind).expect("invalid curve_kind")
WorkResolveCurve(c) ==
    /\ wu[c] = "resolve_curve"
    /\ IF curve_from_str(args[c].curve_kind) = NoKind
       THEN /\ panic' = [panic EXCEPT ![c] = "invalid curve_kind"]
            /\ wu' = [wu EXCEPT ![c] = "panicked"]
            /\ UNCHANGED curve
       ELSE /\ curve' = [curve EXCEPT ![c] = curve_from_str(args[c].curve_kind)]
            /\ wu' = [wu EXCEPT ![c] = "get_parameters"]
            /\ UNCHANGED panic
    /\ Log(c, "curve_from_str")
    /\ UNCHANGED <<args, engine, pc, cc, pool, rng, proving_system, parameters,
                   current_accumulator_hash, response, keypair, res, slot, ret>>

\* The powers a chunk descriptor covers: chunk_size of them from
\* chunk_index * chunk_size on, as far as there are powers.
WindowOf(a) ==
    {i \in 0..a.power :
        /\ a.chunk_index * a.chunk_size <= i
        /\ i < a.chunk_index * a.chunk_size + a.chunk_size}

\* Mutant: the deriver refuses a window that overlaps the window of another
\* call for the same power and batch size.
WorkGetParameters_CrossChecked(c) ==
    /\ wu[c] = "get_parameters"
    /\ LET p == get_parameters_chunked(curve[c], proving_system[c], args[c].power,
                    args[c].batch_size, args[c].chunk_index, args[c].chunk_size)
           clash == \E d \in Calls \ {c} :
                        /\ args[d].mode = "chunked" /\ parameters[d].valid
                        /\ args[d].power = args[c].power
                        /\ args[d].batch_size = args[c].batch_size
                        /\ WindowOf(args[d]) \cap WindowOf(args[c]) # {}
       IN  IF p.valid /\ ~clash
           THEN /\ parameters' = [parameters EXCEPT ![c] = p]
                /\ wu' = [wu EXCEPT ![c] = "contribute_challenge"]
                /\ cc' = [cc EXCEPT ![c] = "check"]
                /\ UNCHANGED panic
           ELSE /\ panic' = [panic EXCEPT ![c] = "chunk window"]
                /\ wu' = [wu EXCEPT ![c] = "panicked"]
                /\ UNCHANGED <<parameters, cc>>
    /\ Log(c, "get_parameters_chunked")
    /\ UNCHANGED <<args, engine, pc, pool, rng, curve, proving_system,
                   current_accumulator_hash, response, keypair, res, slot, ret>>

\* In the closure: &get_parameters_chunked::<E>(proving_system, power,
\* batch_size, chunk_index, chunk_size), then contribute_challenge.
WorkGetParameters(c) ==
    /\ wu[c] = "get_parameters"
    /\ LET p == get_parameters_chunked(curve[c], proving_system[c], args[c].power,
                    args[c].batch_size, args[c].chunk_index, args[c].chunk_size)
       IN  IF p.valid
           THEN /\ parameters' = [parameters EXCEPT ![c] = p]
                /\ wu' = [wu EXCEPT ![c] = "contribute_challenge"]
                /\ cc' = [cc EXCEPT ![c] = "check"]
                /\ UNCHANGED panic
           ELSE /\ panic' = [panic EXCEPT ![c] = "chunk window"]
                /\ wu' = [wu EXCEPT ![c] = "panicked"]
                /\ UNCHANGED <<parameters, cc>>
    /\ Log(c, "get_parameters_chunked")
    /\ UNCHANGED <<args, engine, pc, pool, rng, curve, proving_system,
                   current_accumulator_hash, response, keypair, res, slot, ret>>

\* Mutant: only a successful result is sent.
WorkSend_OnlyOk(c) ==
    /\ wu[c] = "contribute_challenge" /\ cc[c] = "returned"
    /\ slot' = [slot EXCEPT ![c] = IF res[c].tag = "Ok" THEN Append(@, res[c]) ELSE @]
    /\ wu' = [wu EXCEPT ![c] = "done"]
    /\ trace' = [trace EXCEPT ![c] = IF res[c].tag = "Ok" THEN Append(@, "send") ELSE @]
    /\ UNCHANGED <<args, engine, pc, cc, pool, rng, curve, proving_system, parameters,
                   current_accumulator_hash, response, keypair, res, ret, panic>>

\* drop(tx.send(res)): the closure's last statement.
WorkSend(c) ==
    /\ wu[c] = "contribute_challenge" /\ cc[c] = "returned"
    /\ slot' = [slot EXCEPT ![c] = Append(@, res[c])]
    /\ wu' = [wu EXCEPT ![c] = "done"]
    /\ Log(c, "send")
    /\ UNCHANGED <<args, engine, pc, cc, pool, rng, curve, proving_system, parameters,
                   current_accumulator_hash, response, keypair, res, ret, panic>>

\* Mutant: the closure is spawned on the pool and the caller goes on at
\* once.
InstallReturns_NotBlocking(c) ==
    /\ pc[c] = "install" /\ wu[c] # "panicked"
    /\ pc' = [pc EXCEPT ![c] = "recv"]
    /\ UNCHANGED <<args, engine, wu, cc, pool, rng, curve, proving_system, parameters,
                   current_accumulator_hash, response, keypair, res, slot, ret, panic, trace>>

\* install returns when the closure has run to its end.
InstallReturns(c) ==
    /\ pc[c] = "install" /\ wu[c] = "done"
    /\ pc' = [pc EXCEPT ![c] = "recv"]
    /\ UNCHANGED <<args, engine, wu, cc, pool, rng, curve, proving_system, parameters,
                   current_accumulator_hash, response, keypair, res, slot, ret, panic, trace>>

\* Mutant: install returns to the caller although the closure panicked.
InstallPropagatesPanic_Swallowed(c) ==
    /\ pc[c] = "install" /\ wu[c] = "panicked"
    /\ pc' = [pc EXCEPT ![c] = "recv"]
    /\ UNCHANGED <<args, engine, wu, cc, pool, rng, curve, proving_system, parameters,
                   current_accumulator_hash, response, keypair, res, slot, ret, panic, trace>>

\* A panic of the closure: where panics unwind, install resumes the panic
\* on the caller; where they abort the lane, install is never woken and this
\* step is never taken.
InstallPropagatesPanic(c) ==
    /\ pc[c] = "install" /\ wu[c] = "panicked"
    /\ pc' = [pc EXCEPT ![c] = "aborted"]
    /\ UNCHANGED <<args, engine, wu, cc, pool, rng, curve, proving_system, parameters,
                   current_accumulator_hash, response, keypair, res, slot, ret, panic, trace>>

\* rx.recv().unwrap(): takes the value out of the slot and returns it.
Recv(c) ==
    /\ pc[c] = "recv" /\ slot[c] # <<>>
    /\ ret' = [ret EXCEPT ![c] = Head(slot[c])]
    /\ slot' = [slot EXCEPT ![c] = Tail(@)]
    /\ pc' = [pc EXCEPT ![c] = "returned"]
    /\ Log(c, "recv")
    /\ UNCHANGED <<args, engine, wu, cc, pool, rng, curve, proving_system, parameters,
                   current_accumulator_hash, response, keypair, res, panic>>

\* ------------------------------------------------ contribute_challenge
\* Mutant: the input policy read as compressed.
expected_challenge_length_Compressed(p) == p.contribution_size

\* match COMPRESSED_INPUT { Yes => contribution_size, No => accumulator_size }
expected_challenge_length(p) ==
    IF COMPRESSED_INPUT = "Yes" THEN p.contribution_size ELSE p.accumulator_size

\* Mutant: the output policy read as uncompressed.
required_output_length_Uncompressed(p) == p.accumulator_size + p.public_key_size

\* match COMPRESSED_OUTPUT { Yes => contribution_size,
\*                           No => accumulator_size + public_key_size }
required_output_length(p) ==
    IF COMPRESSED_OUTPUT = "Yes" THEN p.contribution_size
    ELSE p.accumulator_size + p.public_key_size

\* format!("The size of challenge file should be {}, but it's {}, so
\* something isn't right.", expected, actual): the pieces of the text, the
\* two numbers in decimal.
SizeMessage(expected, actual) ==
    <<"The size of challenge file should be ", ToString(expected), ", but it's ",
      ToString(actual), ", so something isn't right.">>

\* Mutant: the digest is copied once and the rest of the buffer is zero.
RECURSIVE PushLoop_ZeroPadded(_, _, _, _)
PushLoop_ZeroPadded(buffer, digest, i, n) ==
    IF i >= n THEN buffer
    ELSE PushLoop_ZeroPadded(
             Append(buffer, IF i < Len(digest) THEN digest[i + 1] ELSE 0),
             digest, i + 1, n)

\* for i in 0..required_output_length { response.push(hash[i % hash.len()]) }
RECURSIVE PushLoop(_, _, _, _)
PushLoop(buffer, digest, i, n) ==
    IF i >= n THEN buffer
    ELSE PushLoop(Append(buffer, digest[(i % Len(digest)) + 1]), digest, i + 1, n)

\* The locals of contribute_challenge are dropped when it returns.
Return(c, value) ==
    /\ res' = [res EXCEPT ![c] = value]
    /\ cc' = [cc EXCEPT ![c] = "returned"]
    /\ keypair' = [keypair EXCEPT ![c] = NoKeyPair]
    /\ response' = [response EXCEPT ![c] = <<>>]
    /\ current_accumulator_hash' = [current_accumulator_hash EXCEPT ![c] = <<>>]

\* Mutant: the challenge is hashed before its size is checked.
CheckSize_AfterHash(c) ==
    /\ cc[c] = "check"
    /\ IF Len(args[c].challenge) # parameters[c].accumulator_size
       THEN Return(c, Err(SizeMessage(parameters[c].accumulator_size,
                                      Len(args[c].challenge))))
       ELSE /\ cc' = [cc EXCEPT ![c] = "fill"]
            /\ current_accumulator_hash' =
                   [current_accumulator_hash EXCEPT ![c] = calculate_hash(args[c].challenge)]
            /\ UNCHANGED <<res, keypair, response>>
    /\ trace' = [trace EXCEPT ![c] = Append(Append(@, "calculate_hash"), "check")]
    /\ UNCHANGED <<args, engine, pc, wu, pool, rng, curve, proving_system, parameters,
                   slot, ret, panic>>

\* if challenge.len() != expected_challenge_length { return Err(format!(..)) }
CheckSize(c) ==
    /\ cc[c] = "check"
    /\ IF Len(args[c].challenge) # expected_challenge_length(parameters[c])
       THEN Return(c, Err(SizeMessage(expected_challenge_length(parameters[c]),
                                      Len(args[c].challenge))))
       ELSE /\ cc' = [cc EXCEPT ![c] = "hash"]
            /\ UNCHANGED <<res, keypair, response, current_accumulator_hash>>
    /\ Log(c, "check")
    /\ UNCHANGED <<args, engine, pc, wu, pool, rng, curve, proving_system, parameters,
                   slot, ret, panic>>

\* contribute_challenge(challenge, parameters, rng) as one function of its
\* arguments and of the engine's fault: the value it returns when nothing
\* else runs.
contribute_challenge(challenge, p, rng_state, fault) ==
    IF Len(challenge) # expected_challenge_length(p)
    THEN Err(SizeMessage(expected_challenge_length(p), Len(challenge)))
    ELSE LET digest == calculate_hash(challenge)
             filled == PushLoop(<<>>, digest, 0, required_output_length(p))
             pair == key_generation(RngDraw(rng_state).value, digest)
             computed == computation(challenge, filled, pair.private)
             written == public_key_write(computed, pair.public)
         IN  CASE fault = "key_generation" -> Err(<<"could not generate keypair">>)
               [] fault = "computation" -> Err(<<"must contribute with the key">>)
               [] fault = "write" -> Err(<<"public key write failed">>)
               [] OTHER -> Ok(digest, written, calculate_hash(written))

\* Mutant: the digest of the challenge is kept in one place that all calls
\* share.
HashChallenge_SharedDigest(c) ==
    /\ cc[c] = "hash"
    /\ response' = [response EXCEPT ![c] = <<>>]
    /\ current_accumulator_hash' =
           [d \in Calls |-> IF d = c \/ current_accumulator_hash[d] # <<>>
                            THEN calculate_hash(args[c].challenge) ELSE <<>>]
    /\ cc' = [cc EXCEPT ![c] = "fill"]
    /\ Log(c, "calculate_hash")
    /\ UNCHANGED <<args, engine, pc, wu, pool, rng, curve, proving_system, parameters,
                   keypair, res, slot, ret, panic>>

\* let mut response = vec![]; let current_accumulator_hash = calculate_hash(&challenge);
HashChallenge(c) ==
    /\ cc[c] = "hash"
    /\ response' = [response EXCEPT ![c] = <<>>]
    /\ current_accumulator_hash' =
           [current_accumulator_hash EXCEPT ![c] = calculate_hash(args[c].challenge)]
    /\ cc' = [cc EXCEPT ![c] = "fill"]
    /\ Log(c, "calculate_hash")
    /\ UNCHANGED <<args, engine, pc, wu, pool, rng, curve, proving_system, parameters,
                   keypair, res, slot, ret, panic>>

\* The pre-fill loop over 0..required_output_length.
Fill(c) ==
    /\ cc[c] = "fill"
    /\ response' = [response EXCEPT ![c] =
           PushLoop(@, current_accumulator_hash[c], 0, required_output_length(parameters[c]))]
    /\ cc' = [cc EXCEPT ![c] = "key_generation"]
    /\ Log(c, "fill")
    /\ UNCHANGED <<args, engine, pc, wu, pool, rng, curve, proving_system, parameters,
                   current_accumulator_hash, keypair, res, slot, ret, panic>>

\* Mutant: a key generation that fails leaves the rng as it found it.
KeyGeneration_RngUntouchedOnFailure(c) ==
    /\ cc[c] = "key_generation"
    /\ \E fault \in EngineFaults :
          /\ engine' = [engine EXCEPT ![c] = fault]
          /\ IF fault = "key_generation"
             THEN /\ Return(c, Err(<<"could not generate keypair">>))
                  /\ UNCHANGED rng
             ELSE /\ rng' = [rng EXCEPT ![c] = RngDraw(@).next]
                  /\ keypair' = [keypair EXCEPT ![c] =
                         key_generation(RngDraw(rng[c]).value, current_accumulator_hash[c])]
                  /\ cc' = [cc EXCEPT ![c] = "computation"]
                  /\ UNCHANGED <<res, response, current_accumulator_hash>>
    /\ Log(c, "key_generation")
    /\ UNCHANGED <<args, pc, wu, pool, curve, proving_system, parameters,
                   slot, ret, panic>>

\* Mutant: the key is drawn from entropy of the call's own, not from the rng
\* the call was given.
KeyGeneration_OwnEntropy(c) ==
    /\ cc[c] = "key_generation"
    /\ rng' = [rng EXCEPT ![c] = RngDraw(@).next]
    /\ \E fault \in EngineFaults :
          /\ engine' = [engine EXCEPT ![c] = fault]
          /\ IF fault = "key_generation"
             THEN Return(c, Err(<<"could not generate keypair">>))
             ELSE /\ keypair' = [keypair EXCEPT ![c] =
                         key_generation(c, current_accumulator_hash[c])]
                  /\ cc' = [cc EXCEPT ![c] = "computation"]
                  /\ UNCHANGED <<res, response, current_accumulator_hash>>
    /\ Log(c, "key_generation")
    /\ UNCHANGED <<args, pc, wu, pool, curve, proving_system, parameters,
                   slot, ret, panic>>

\* match Phase1::key_generation(&mut rng, current_accumulator_hash.as_ref())
\*   { Ok(pair) => pair, Err(_) => return Err("could not generate keypair") }
KeyGeneration(c) ==
    /\ cc[c] = "key_generation"
    /\ rng' = [rng EXCEPT ![c] = RngDraw(@).next]
    /\ \E fault \in EngineFaults :
          /\ engine' = [engine EXCEPT ![c] = fault]
          /\ IF fault = "key_generation"
             THEN Return(c, Err(<<"could not generate keypair">>))
             ELSE /\ keypair' = [keypair EXCEPT ![c] =
                         key_generation(RngDraw(rng[c]).value, current_accumulator_hash[c])]
                  /\ cc' = [cc EXCEPT ![c] = "computation"]
                  /\ UNCHANGED <<res, response, current_accumulator_hash>>
    /\ Log(c, "key_generation")
    /\ UNCHANGED <<args, pc, wu, pool, curve, proving_system, parameters,
                   slot, ret, panic>>

\* Mutant: the result of the computation is ignored.
Computation_ErrorIgnored(c) ==
    /\ cc[c] = "computation"
    /\ response' = [response EXCEPT ![c] =
           computation(args[c].challenge, @, keypair[c].private)]
    /\ cc' = [cc EXCEPT ![c] = "write"]
    /\ Log(c, "computation")
    /\ UNCHANGED <<args, engine, pc, wu, pool, rng, curve, proving_system, parameters,
                   res, keypair, current_accumulator_hash, slot, ret, panic>>

\* match Phase1::computation(&challenge, &mut response, .., &private_key, ..)
\*   { Ok(_) => .., Err(_) => return Err("must contribute with the key") }
Computation(c) ==
    /\ cc[c] = "computation"
    /\ IF engine[c] = "computation"
       THEN Return(c, Err(<<"must contribute with the key">>))
       ELSE /\ response' = [response EXCEPT ![c] =
                   computation(args[c].challenge, @, keypair[c].private)]
            /\ cc' = [cc EXCEPT ![c] = "write"]
            /\ UNCHANGED <<res, keypair, current_accumulator_hash>>
    /\ Log(c, "computation")
    /\ UNCHANGED <<args, engine, pc, wu, pool, rng, curve, proving_system, parameters,
                   slot, ret, panic>>

\* Mutant: a failed write of the public key is ignored.
WritePublicKey_ErrorIgnored(c) ==
    /\ cc[c] = "write"
    /\ response' = [response EXCEPT ![c] =
           IF engine[c] = "write" THEN @ ELSE public_key_write(@, keypair[c].public)]
    /\ cc' = [cc EXCEPT ![c] = "hash_response"]
    /\ Log(c, "write")
    /\ UNCHANGED <<args, engine, pc, wu, pool, rng, curve, proving_system, parameters,
                   res, keypair, current_accumulator_hash, slot, ret, panic>>

\* Mutant: the error of a failed write is formatted with the key pair.
WritePublicKey_KeyInMessage(c) ==
    /\ cc[c] = "write"
    /\ IF engine[c] = "write"
       THEN Return(c, Err(<<"public key write failed", ToString(keypair[c].private)>>))
       ELSE /\ response' = [response EXCEPT ![c] = public_key_write(@, keypair[c].public)]
            /\ cc' = [cc EXCEPT ![c] = "hash_response"]
            /\ UNCHANGED <<res, keypair, current_accumulator_hash>>
    /\ Log(c, "write")
    /\ UNCHANGED <<args, engine, pc, wu, pool, rng, curve, proving_system, parameters,
                   slot, ret, panic>>

\* match public_key.write(&mut response, COMPRESSED_OUTPUT, &parameters)
\*   { Ok(_) => .., Err(e) => return Err(e.to_string()) }
WritePublicKey(c) ==
    /\ cc[c] = "write"
    /\ IF engine[c] = "write"
       THEN Return(c, Err(<<"public key write failed">>))
       ELSE /\ response' = [response EXCEPT ![c] = public_key_write(@, keypair[c].public)]
            /\ cc' = [cc EXCEPT ![c] = "hash_response"]
            /\ UNCHANGED <<res, keypair, current_accumulator_hash>>
    /\ Log(c, "write")
    /\ UNCHANGED <<args, engine, pc, wu, pool, rng, curve, proving_system, parameters,
                   slot, ret, panic>>

\* Mutant: the challenge's digest is returned as the contribution hash.
HashResponse_Stale(c) ==
    /\ cc[c] = "hash_response"
    /\ Return(c, Ok(current_accumulator_hash[c], response[c], current_accumulator_hash[c]))
    /\ Log(c, "calculate_hash")
    /\ UNCHANGED <<args, engine, pc, wu, pool, rng, curve, proving_system, parameters,
                   slot, ret, panic>>

\* let contribution_hash = calculate_hash(&response);
\* return Ok(ContributionResponse { current_accumulator_hash, response,
\*                                  contribution_hash })
HashResponse(c) ==
    /\ cc[c] = "hash_response"
    /\ Return(c, Ok(current_accumulator_hash[c], response[c], calculate_hash(response[c])))
    /\ Log(c, "calculate_hash")
    /\ UNCHANGED <<args, engine, pc, wu, pool, rng, curve, proving_system, parameters,
                   slot, ret, panic>>

\* ------------------------------------------------------ specification
Step(c) ==
    \/ Begin(c)
    \/ FullGetRng(c)
    \/ ResolveProvingSystem(c)
    \/ FullResolveCurve(c)
    \/ FullGetParameters(c)
    \/ FullReturn(c)
    \/ ConfigurePool(c)
    \/ SpawnLane(c)
    \/ SpawnLaneFails(c)
    \/ ChunkedDeriveRng(c)
    \/ Install(c)
    \/ WorkResolveCurve(c)
    \/ WorkGetParameters(c)
    \/ WorkSend(c)
    \/ InstallReturns(c)
    \/ InstallPropagatesPanic(c)
    \/ Recv(c)
    \/ CheckSize(c)
    \/ HashChallenge(c)
    \/ Fill(c)
    \/ KeyGeneration(c)
    \/ Computation(c)
    \/ WritePublicKey(c)
    \/ HashResponse(c)

Next == \E c \in Calls : Step(c)

Spec == Init /\ [][Next]_vars

\* The same entry point called twice with the same arguments, known
\* selector tokens and (chunked mode) a pool of one lane, the second call
\* made when the first has ended; the system's entropy (full mode) and the
\* seed (chunked mode) of the second call are free.
InitTwice ==
    \E a \in FullArgs \cup ChunkedArgs, r \in Seeds :
        /\ curve_from_str(a.curve_kind) # NoKind
        /\ proving_system_from_str(a.proving_system) # NoKind
        /\ a.mode = "chunked" => a.thread_pool_size = 1
        /\ InitCall([c \in Calls |->
                        IF c = 1 THEN a
                        ELSE IF a.mode = "full" THEN [a EXCEPT !.system_randomness = r]
                        ELSE [a EXCEPT !.seed = r]])

SpecTwice == InitTwice /\ [][Next]_vars

\* Two calls in progress at once, their steps interleaved in every order:
\* call 2, a chunked call, has been entered when the host invokes call 1, a
\* full or a chunked call.  Known selector tokens, the largest power, a pool
\* of one lane; call 1 has a challenge of the full accumulator's length
\* (full mode) or of one of the two chunk lengths (chunked mode), call 2
\* one of the two chunk lengths; every chunk window, the empty one included.
PairChallenges == {ch \in Challenges : Len(ch) \in 1..MaxChunkSize /\ ch[1] = 1}

PairFullArgs ==
    {a \in FullArgs :
        /\ a.curve_kind = "bls12_377" /\ a.proving_system = "groth16"
        /\ a.power = MaxPower
        /\ Len(a.challenge) = MaxPower + 1}

PairChunkedArgs ==
    {a \in ChunkedArgs :
        /\ a.curve_kind = "bls12_377" /\ a.proving_system = "groth16"
        /\ a.power = MaxPower
        /\ a.thread_pool_size = 1
        /\ a.challenge \in PairChallenges}

InitPair ==
    \E a1 \in PairFullArgs \cup PairChunkedArgs, a2 \in PairChunkedArgs :
        /\ a2.seed = <<0>>
        /\ InitAt([c \in Calls |-> IF c = 1 THEN a1 ELSE a2],
                  [c \in Calls |-> IF c = 1 THEN "waiting" ELSE "start"])

SpecPair == InitPair /\ [][Next]_vars

\* ------------------------------------------------------------- claims
Started(c) == args[c].mode # "idle"

\* The rng contribute_challenge is given: the one its entry point built.
InitialRng(c) ==
    IF args[c].mode = "full" THEN get_rng(args[c].system_randomness)
    ELSE derive_rng_from_seed(args[c].seed)

Happened(c, event) == Count(trace[c], event) > 0

IsSizeError(r) ==
    r.tag = "Err" /\ Head(r.msg) = "The size of challenge file should be "

\* C1: once the size check has run, a challenge whose length differs from
\* parameters.accumulator_size has been rejected with an error whose message
\* carries the expected and the actual length, and a challenge of exactly
\* that length is never rejected with the size error.
C1_SizeCheck ==
    \A c \in Calls :
        Happened(c, "check") =>
            LET expected == parameters[c].accumulator_size
                actual == Len(args[c].challenge)
            IN  IF actual # expected
                THEN /\ cc[c] = "returned"
                     /\ IsSizeError(res[c])
                     /\ Len(res[c].msg) = 5
                     /\ res[c].msg[2] = ToString(expected)
                     /\ res[c].msg[4] = ToString(actual)
                ELSE ~IsSizeError(res[c])

\* A challenge one byte longer than expected was rejected.
C1_Witness ==
    \E c \in Calls :
        /\ IsSizeError(res[c])
        /\ Len(args[c].challenge) = parameters[c].accumulator_size + 1

\* C2: a call rejected for a size mismatch has done nothing else: no hash, no
\* pre-fill, no draw from the rng, no key generation, no computation, no
\* public-key write, and its buffer is empty.
C2_RejectionDoesNoWork ==
    \A c \in Calls :
        IsSizeError(res[c]) =>
            /\ ~Happened(c, "calculate_hash")
            /\ ~Happened(c, "fill")
            /\ ~Happened(c, "key_generation")
            /\ ~Happened(c, "computation")
            /\ ~Happened(c, "write")
            /\ rng[c] = InitialRng(c)
            /\ response[c] = <<>>
            /\ ~keypair[c].present

\* A call was rejected for its size and the rejection reached the host.
C2_Witness ==
    \E c \in Calls : IsSizeError(res[c]) /\ ret[c] = res[c]

\* Position of the n-th occurrence of an event in a trace, 0 when absent.
RECURSIVE NthIndexFrom(_, _, _, _)
NthIndexFrom(s, e, n, i) ==
    IF i > Len(s) THEN 0
    ELSE IF s[i] = e
         THEN IF n = 1 THEN i ELSE NthIndexFrom(s, e, n - 1, i + 1)
         ELSE NthIndexFrom(s, e, n, i + 1)

NthIndexOf(s, e, n) == NthIndexFrom(s, e, n, 1)

\* C3: hash chain.  A successful call returns current_accumulator_hash =
\* Hash(challenge), computed before the computation ran, and
\* contribution_hash = Hash(response) over the bytes it returns, computed
\* after the computation and after the public-key write; the response it
\* returns is the buffer as those two left it.
C3_HashChain ==
    /\ [](\A c \in Calls :
            /\ Happened(c, "computation") =>
                  /\ IndexOf(trace[c], "calculate_hash") > 0
                  /\ IndexOf(trace[c], "calculate_hash") < IndexOf(trace[c], "computation")
            /\ cc[c] \in {"fill", "key_generation", "computation", "write", "hash_response"} =>
                  current_accumulator_hash[c] = calculate_hash(args[c].challenge)
            /\ res[c].tag = "Ok" =>
                  /\ res[c].current_accumulator_hash = calculate_hash(args[c].challenge)
                  /\ res[c].contribution_hash = calculate_hash(res[c].response)
                  /\ Count(trace[c], "calculate_hash") = 2
                  /\ IndexOf(trace[c], "computation") < IndexOf(trace[c], "write")
                  /\ IndexOf(trace[c], "write") < NthIndexOf(trace[c], "calculate_hash", 2))
    /\ [][\A c \in Calls :
            (res[c].tag # "Ok" /\ res'[c].tag = "Ok") =>
                /\ cc[c] = "hash_response"
                /\ res'[c].response = response[c]
                /\ res'[c].contribution_hash = calculate_hash(response[c])
                /\ res'[c].current_accumulator_hash = current_accumulator_hash[c]]_vars

\* A successful contribution reached the host.
C3_Witness ==
    \E c \in Calls :
        /\ ret[c].tag = "Ok"
        /\ ret[c].contribution_hash = calculate_hash(ret[c].response)
        /\ ret[c].response # <<>>

\* C4: from the pre-fill on the buffer has parameters.contribution_size
\* bytes, through key generation, computation and public-key write, and that
\* is the length of the response a successful call returns; it is not
\* accumulator_size + public_key_size.
C4_ResponseLength ==
    \A c \in Calls :
        /\ cc[c] \in {"key_generation", "computation", "write", "hash_response"} =>
              Len(response[c]) = parameters[c].contribution_size
        /\ res[c].tag = "Ok" =>
              /\ Len(res[c].response) = parameters[c].contribution_size
              /\ Len(res[c].response) #
                    parameters[c].accumulator_size + parameters[c].public_key_size

\* The public key was written into a buffer of contribution_size bytes.
C4_Witness ==
    \E c \in Calls :
        /\ cc[c] = "hash_response"
        /\ Len(response[c]) = parameters[c].contribution_size
        /\ parameters[c].contribution_size > 0

\* C5: no step is retried and a failure leaves no partial result.  Key
\* generation, computation and public-key write each run at most once per
\* call; a failure of the size check or of one of the three ends the call
\* with an error that carries no hash and no response bytes, and the later
\* steps never run; a ContributionResponse exists only when all of them
\* succeeded, and once a value is returned it never changes.
C5_NoRetryNoPartialResult ==
    /\ [](\A c \in Calls :
            /\ Count(trace[c], "check") <= 1
            /\ Count(trace[c], "key_generation") <= 1
            /\ Count(trace[c], "computation") <= 1
            /\ Count(trace[c], "write") <= 1
            /\ res[c].tag = "Err" =>
                  /\ res[c].response = <<>>
                  /\ res[c].current_accumulator_hash = <<>>
                  /\ res[c].contribution_hash = <<>>
                  /\ cc[c] = "returned"
            /\ (Happened(c, "key_generation") /\ engine[c] = "key_generation") =>
                  /\ res[c] = Err(<<"could not generate keypair">>)
                  /\ ~Happened(c, "computation") /\ ~Happened(c, "write")
            /\ (Happened(c, "computation") /\ engine[c] = "computation") =>
                  /\ res[c] = Err(<<"must contribute with the key">>)
                  /\ ~Happened(c, "write")
            /\ (Happened(c, "write") /\ engine[c] = "write") =>
                  /\ res[c].tag = "Err"
                  /\ Count(trace[c], "calculate_hash") = 1
            /\ res[c].tag = "Ok" =>
                  /\ Len(args[c].challenge) = parameters[c].accumulator_size
                  /\ engine[c] = "none"
                  /\ Count(trace[c], "key_generation") = 1
                  /\ Count(trace[c], "computation") = 1
                  /\ Count(trace[c], "write") = 1)
    /\ [][\A c \in Calls :
            /\ res[c] # NoResult => res'[c] = res[c]
            /\ ret[c] # NoResult => ret'[c] = ret[c]]_vars

\* The computation failed and the call ended with its error.
C5_Witness ==
    \E c \in Calls :
        /\ engine[c] = "computation"
        /\ Happened(c, "computation")
        /\ ret[c] = Err(<<"must contribute with the key">>)

\* The inputs the determinism claim holds fixed.
SameFixedInputs(c, d) ==
    /\ args[c].mode = args[d].mode
    /\ args[c].curve_kind = args[d].curve_kind
    /\ args[c].proving_system = args[d].proving_system
    /\ args[c].batch_size = args[d].batch_size
    /\ args[c].power = args[d].power
    /\ args[c].chunk_index = args[d].chunk_index
    /\ args[c].chunk_size = args[d].chunk_size
    /\ args[c].challenge = args[d].challenge

\* C6: determinism.  Two calls with the same parameters and the same
\* challenge, given rngs in the same state and an engine that behaves the
\* same, return the same value from contribute_challenge: the same response,
\* current_accumulator_hash and contribution_hash, or the same error; and so
\* do their entry points.
C6_Determinism ==
    \A c, d \in Calls :
        (/\ Started(c) /\ Started(d)
         /\ SameFixedInputs(c, d)
         /\ InitialRng(c) = InitialRng(d)
         /\ engine[c] = engine[d]) =>
            /\ (cc[c] = "returned" /\ cc[d] = "returned") => res[c] = res[d]
            /\ (pc[c] = "returned" /\ pc[d] = "returned") => ret[c] = ret[d]

\* Both calls came back with a successful contribution, from equal rngs.
C6_Witness ==
    /\ SameFixedInputs(1, 2)
    /\ InitialRng(1) = InitialRng(2)
    /\ ret[1].tag = "Ok" /\ ret[2].tag = "Ok"
    /\ ret[1] = ret[2]

\* C7: a chunked call installs one work unit, which is one call of
\* contribute_challenge; when the work unit ends, with Ok or with Err, it has
\* sent exactly one value, its result, into the slot, which never holds more
\* than one; the caller returns only after the work unit has ended, and
\* returns that value unchanged.
C7_OneWorkUnitOneValue ==
    \A c \in Calls :
        args[c].mode = "chunked" =>
            /\ Count(trace[c], "install") <= 1
            /\ Count(trace[c], "check") <= 1
            /\ Count(trace[c], "send") <= 1
            /\ Len(slot[c]) <= 1
            /\ wu[c] # "none" => Count(trace[c], "install") = 1
            /\ wu[c] = "done" =>
                  /\ cc[c] = "returned" /\ res[c] # NoResult
                  /\ Count(trace[c], "send") = 1
                  /\ slot[c] = <<res[c]>> \/ (slot[c] = <<>> /\ ret[c] = res[c])
            /\ Happened(c, "send") => wu[c] = "done"
            /\ pc[c] \in {"recv", "returned"} => wu[c] = "done"
            /\ pc[c] = "returned" =>
                  /\ ret[c] = res[c] /\ ret[c] # NoResult
                  /\ slot[c] = <<>>
            /\ pc[c] # "returned" => ret[c] = NoResult

\* A chunked call returned the error value its work unit sent.
C7_Witness ==
    \E c \in Calls :
        /\ args[c].mode = "chunked" /\ pc[c] = "returned"
        /\ ret[c].tag = "Err" /\ ret[c] = res[c]
        /\ Count(trace[c], "send") = 1

PoolClaimsBesidesSize(c) ==
    /\ pool[c].lanes <= pool[c].num_threads
    /\ (pool[c].built \/ Happened(c, "install")) =>
          /\ pool[c].built
          /\ pool[c].lanes = pool[c].num_threads
          /\ Count(trace[c], "worker.run") = pool[c].lanes
    /\ (wu[c] # "none" \/ cc[c] # "none") => pool[c].built
    /\ panic[c] = "worker.run failed" =>
          /\ pc[c] = "aborted"
          /\ ret[c] = NoResult /\ res[c] = NoResult
          /\ wu[c] = "none" /\ cc[c] = "none"
          /\ ~pool[c].built /\ ~Happened(c, "install")

\* C8 as stated: the pool has exactly thread_pool_size lanes, whatever
\* thread_pool_size is.
C8_Original ==
    \A c \in Calls :
        args[c].mode = "chunked" =>
            /\ pool[c] # NoPool => pool[c].num_threads = args[c].thread_pool_size
            /\ PoolClaimsBesidesSize(c)

\* C8, amended: a chunked call builds a pool of exactly thread_pool_size
\* lanes when thread_pool_size > 0, and of a number of lanes the pool library
\* chooses (at least one) when it is 0; every lane is started through the
\* host's worker before the work unit is installed; a lane that fails to
\* start aborts the call, which then returns nothing and runs no
\* contribution; and the number of lanes never changes once fixed.
C8_PoolSize ==
    /\ [](\A c \in Calls :
            args[c].mode = "chunked" =>
                /\ pool[c] # NoPool =>
                      /\ args[c].thread_pool_size > 0 =>
                            pool[c].num_threads = args[c].thread_pool_size
                      /\ pool[c].num_threads >= 1
                /\ PoolClaimsBesidesSize(c))
    /\ [][\A c \in Calls :
            /\ pool[c] # NoPool => pool'[c].num_threads = pool[c].num_threads
            /\ pool[c].built => pool'[c] = pool[c]]_vars

\* A pool of thread_pool_size = MaxLanes lanes was built and the work unit
\* installed on it.
C8_Witness ==
    \E c \in Calls :
        /\ args[c].thread_pool_size = MaxLanes
        /\ Happened(c, "install")
        /\ pool[c].lanes = MaxLanes

UnknownProvingSystem(c) == proving_system_from_str(args[c].proving_system) = NoKind
UnknownCurve(c) == curve_from_str(args[c].curve_kind) = NoKind

\* C9: a call given an unknown curve token or an unknown proving-system
\* token never returns a value, neither a ContributionResponse nor an error
\* value, and never reaches contribute_challenge, so neither key generation
\* nor the computation runs; the resolution of the unknown token ends in the
\* panic of its expect.
C9_UnknownSelectorAborts ==
    \A c \in Calls :
        /\ (Started(c) /\ (UnknownProvingSystem(c) \/ UnknownCurve(c))) =>
              /\ ret[c] = NoResult /\ res[c] = NoResult /\ slot[c] = <<>>
              /\ pc[c] # "returned"
              /\ cc[c] = "none"
              /\ ~Happened(c, "key_generation") /\ ~Happened(c, "computation")
        /\ (UnknownProvingSystem(c) /\ Happened(c, "proving_system_from_str")) =>
              /\ panic[c] = "invalid proving system"
              /\ pc[c] = "aborted"
        /\ (UnknownCurve(c) /\ Happened(c, "curve_from_str")) =>
              /\ panic[c] = "invalid curve_kind"
              /\ args[c].mode = "full" => pc[c] = "aborted"
              /\ args[c].mode = "chunked" =>
                    wu[c] = "panicked" /\ pc[c] \in {"install", "aborted"}

\* A chunked call aborted on an unknown curve token, inside its work unit.
C9_Witness ==
    \E c \in Calls :
        /\ args[c].mode = "chunked"
        /\ UnknownCurve(c)
        /\ panic[c] = "invalid curve_kind"
        /\ pc[c] = "aborted"

\* The error messages contribute_challenge builds: three fixed texts and
\* the size message, which carries the two lengths.
KeyFreeMessage(c, m) ==
    \/ m \in {<<"could not generate keypair">>, <<"must contribute with the key">>,
              <<"public key write failed">>}
    \/ m = SizeMessage(parameters[c].accumulator_size, Len(args[c].challenge))

KeyFreeValue(c, v) ==
    \/ v = NoResult
    \/ v.tag = "Err" /\ KeyFreeMessage(c, v.msg)
    \/ /\ v.tag = "Ok" /\ v.msg = <<>>
       /\ v.current_accumulator_hash = calculate_hash(args[c].challenge)
       /\ v.contribution_hash = calculate_hash(v.response)
       /\ Len(v.response) = parameters[c].contribution_size

\* C10: the private key exists only between key generation and the return
\* of contribute_challenge, on the success path and on every failure path;
\* every value the call returns, sends or hands to the host is either one of
\* the fixed error texts or the size message, or the three fields digest of
\* the challenge, engine-written buffer and digest of that buffer: no
\* returned field or message is the key.
C10_PrivateKeyNotReturned ==
    \A c \in Calls :
        /\ keypair[c].present => cc[c] \in {"computation", "write", "hash_response"}
        /\ cc[c] = "returned" => keypair[c] = NoKeyPair
        /\ KeyFreeValue(c, res[c])
        /\ KeyFreeValue(c, ret[c])
        /\ \A i \in 1..Len(slot[c]) : KeyFreeValue(c, slot[c][i])

\* The public-key write failed after the key pair was used, and the call
\* returned its error.
C10_Witness ==
    \E c \in Calls :
        /\ engine[c] = "write" /\ Happened(c, "write")
        /\ ret[c].tag = "Err"
        /\ keypair[c] = NoKeyPair

\* C11: pre-fill.  When the engine's computation is about to be invoked (and
\* already when key generation is), the buffer has required_output_length
\* bytes and byte i is byte (i mod digest length) of current_accumulator_hash,
\* for every i below that length: also when the length is not a multiple of
\* the digest's and when it is smaller.
C11_Prefill ==
    \A c \in Calls :
        cc[c] \in {"key_generation", "computation"} =>
            /\ Len(response[c]) = required_output_length(parameters[c])
            /\ \A i \in 0..(required_output_length(parameters[c]) - 1) :
                  response[c][i + 1] =
                      current_accumulator_hash[c][(i % Len(current_accumulator_hash[c])) + 1]

\* The computation is about to run on a buffer longer than the digest and
\* not a multiple of it, whose byte after the first copy of the digest is
\* the digest's first and is not zero.
C11_Witness ==
    \E c \in Calls :
        /\ cc[c] = "computation"
        /\ Len(response[c]) > HashLen
        /\ Len(response[c]) % HashLen # 0
        /\ response[c][HashLen + 1] = current_accumulator_hash[c][1]
        /\ response[c][HashLen + 1] # 0

\* The invocations contribute_challenge makes, in the order of its text.
ChallengeOrder ==
    <<"check", "calculate_hash", "fill", "key_generation", "computation", "write",
      "calculate_hash">>

IsChallengeEvent(e) ==
    e \in {"check", "calculate_hash", "fill", "key_generation", "computation", "write"}

\* The part of a call's trace that contribute_challenge logged.
ChallengeTrace(c) == SelectSeq(trace[c], IsChallengeEvent)

\* C12: the steps of contribute_challenge run in the order size check, hash
\* of the challenge, pre-fill, key generation, computation, public-key write,
\* hash of the response, none skipped and none repeated.  Key generation is
\* invoked when the digest of the challenge exists and takes it as context;
\* the computation is invoked only after key generation succeeded, the write
\* only after the computation succeeded, and the contribution hash only
\* after the write succeeded.
C12_StepOrder ==
    /\ [](\A c \in Calls :
            /\ Len(ChallengeTrace(c)) <= Len(ChallengeOrder)
            /\ ChallengeTrace(c) = SubSeq(ChallengeOrder, 1, Len(ChallengeTrace(c)))
            /\ Happened(c, "computation") =>
                  /\ Happened(c, "key_generation") /\ engine[c] # "key_generation"
            /\ Happened(c, "write") =>
                  /\ Happened(c, "computation") /\ engine[c] # "computation"
            /\ Count(trace[c], "calculate_hash") = 2 =>
                  /\ Happened(c, "write") /\ engine[c] # "write")
    /\ [][\A c \in Calls :
            /\ (~Happened(c, "key_generation") /\ Happened(c, "key_generation")') =>
                  /\ current_accumulator_hash[c] = calculate_hash(args[c].challenge)
                  /\ keypair'[c].present =>
                        \E v \in RngStates :
                            keypair'[c] = key_generation(v, calculate_hash(args[c].challenge))
            /\ (~Happened(c, "computation") /\ Happened(c, "computation")') =>
                  keypair[c].present
            /\ (~Happened(c, "write") /\ Happened(c, "write")') =>
                  response[c] = computation(args[c].challenge,
                                    PushLoop(<<>>, current_accumulator_hash[c], 0,
                                             required_output_length(parameters[c])),
                                    keypair[c].private)]_vars

\* A call ran all seven steps and returned a contribution.
C12_Witness ==
    \E c \in Calls :
        /\ ChallengeTrace(c) = ChallengeOrder
        /\ res[c].tag = "Ok"

\* C15: once key generation has been attempted the rng has been drawn from,
\* whether it succeeded or failed, and only that once; when it failed the
\* call's value is the key-generation error, with no response bytes and no
\* hash, that error is what the entry point hands back, and neither the
\* computation nor the public-key write is ever invoked.
C15_KeyGenerationFailure ==
    \A c \in Calls :
        /\ ~Happened(c, "key_generation") =>
              rng[c] \in {NoRng, InitialRng(c)}
        /\ Happened(c, "key_generation") =>
              /\ rng[c] = RngDraw(InitialRng(c)).next
              /\ rng[c] # InitialRng(c)
        /\ (Happened(c, "key_generation") /\ engine[c] = "key_generation") =>
              /\ cc[c] = "returned"
              /\ res[c] = Err(<<"could not generate keypair">>)
              /\ res[c].response = <<>> /\ response[c] = <<>>
              /\ ~Happened(c, "computation") /\ ~Happened(c, "write")
              /\ Count(trace[c], "calculate_hash") = 1
              /\ ret[c] \in {NoResult, res[c]}
              /\ pc[c] = "returned" => ret[c] = res[c]

\* Key generation failed, the rng was drawn from, and the entry point
\* returned the key-generation error.
C15_Witness ==
    \E c \in Calls :
        /\ engine[c] = "key_generation"
        /\ rng[c] # InitialRng(c)
        /\ pc[c] = "returned"
        /\ ret[c] = Err(<<"could not generate keypair">>)

\* What only contribute_chunked does: start lanes, build its rng from the
\* seed, install a work unit, derive chunked parameters, send and receive.
ChunkedOnlyEvents ==
    {"worker.run", "derive_rng_from_seed", "install", "get_parameters_chunked",
     "send", "recv"}

\* C17: a full-mode call runs contribute_challenge on the caller's thread:
\* it has no pool, starts no lane, installs no work unit, has no slot to
\* send into or receive from, and its parameters are those of the full-mode
\* deriver for (power, batch_size).  Only a chunked call builds a pool, runs
\* contribute_challenge inside the work unit installed on the built pool,
\* and derives its parameters with the chunked deriver from the caller's
\* chunk_index and chunk_size.
C17_FullModeOnCallerThread ==
    \A c \in Calls :
        /\ args[c].mode = "full" =>
              /\ pool[c] = NoPool
              /\ wu[c] = "none"
              /\ slot[c] = <<>>
              /\ \A e \in ChunkedOnlyEvents : ~Happened(c, e)
              /\ cc[c] # "none" =>
                    /\ pc[c] \in {"contribute_challenge", "returned"}
                    /\ Count(trace[c], "get_parameters_full") = 1
                    /\ parameters[c] = get_parameters_full(curve[c], proving_system[c],
                                           args[c].power, args[c].batch_size)
              /\ pc[c] = "returned" => ret[c] = res[c]
        /\ args[c].mode = "chunked" =>
              /\ ~Happened(c, "get_parameters_full") /\ ~Happened(c, "get_rng")
              /\ pc[c] # "contribute_challenge"
              /\ cc[c] # "none" =>
                    /\ pool[c].built /\ Happened(c, "install")
                    /\ wu[c] \in {"contribute_challenge", "done"}
                    /\ Count(trace[c], "get_parameters_chunked") = 1
                    /\ parameters[c] = get_parameters_chunked(curve[c], proving_system[c],
                                           args[c].power, args[c].batch_size,
                                           args[c].chunk_index, args[c].chunk_size)

\* A full-mode call returned a contribution without a pool, a work unit or
\* a slot.
C17_Witness ==
    \E c \in Calls :
        /\ args[c].mode = "full"
        /\ pc[c] = "returned" /\ ret[c].tag = "Ok"
        /\ pool[c] = NoPool /\ wu[c] = "none"
        /\ Happened(c, "get_parameters_full")

\* The work unit of the call ended in a panic, before its send.
WorkUnitPanicked(c) == args[c].mode = "chunked" /\ wu[c] = "panicked"

\* What holds of a call whose work unit panicked, on every build: nothing
\* was sent, nothing is received, nothing is returned.
NothingComesBack(c) ==
    /\ ~Happened(c, "send") /\ ~Happened(c, "recv")
    /\ slot[c] = <<>>
    /\ res[c] = NoResult /\ ret[c] = NoResult
    /\ pc[c] # "returned"

\* C13 as stated: when the work unit ended abnormally without sending, the
\* caller stays blocked: it neither returns a value nor aborts.
C13_Original ==
    \A c \in Calls :
        WorkUnitPanicked(c) => (NothingComesBack(c) /\ pc[c] = "install")

\* C13, amended: when the work unit ended abnormally without sending (an
\* unknown curve token, or a panic of the parameter deriver), the caller
\* never returns a value and never reaches the receive; it is inside
\* install, where it either stays, or has the work unit's panic raised on it
\* and aborts with that panic.  No other step of the call is taken.
C13_AbnormalWorkUnit ==
    /\ [](\A c \in Calls :
            WorkUnitPanicked(c) =>
                /\ NothingComesBack(c)
                /\ pc[c] \in {"install", "aborted"}
                /\ panic[c] \in {"invalid curve_kind", "chunk window"})
    /\ [][\A c \in Calls :
            WorkUnitPanicked(c) =>
                /\ WorkUnitPanicked(c)'
                /\ panic'[c] = panic[c] /\ trace'[c] = trace[c]
                /\ pc'[c] # pc[c] => (pc[c] = "install" /\ pc'[c] = "aborted")]_vars

\* The parameter deriver panicked inside the work unit and the panic was
\* raised on the caller, which aborted.
C13_Witness ==
    \E c \in Calls :
        /\ WorkUnitPanicked(c)
        /\ panic[c] = "chunk window"
        /\ pc[c] = "aborted"

\* C18: install blocks the caller, so the caller is at the receive only
\* when the work unit has run to its end: the value is then in the slot,
\* the receive finds it there, and what it takes out is what was sent.  The
\* send happens while the caller is still inside install, holding the
\* receiving end: it never finds the receiver gone.
C18_InstallBlocks ==
    /\ [](\A c \in Calls :
            /\ pc[c] = "recv" =>
                  /\ wu[c] = "done" /\ cc[c] = "returned"
                  /\ Happened(c, "send")
                  /\ slot[c] = <<res[c]>>
            /\ wu[c] \in {"resolve_curve", "get_parameters", "contribute_challenge"} =>
                  pc[c] = "install"
            /\ (Happened(c, "send") /\ ~Happened(c, "recv")) =>
                  /\ pc[c] \in {"install", "recv"}
                  /\ slot[c] = <<res[c]>>)
    /\ [][\A c \in Calls :
            /\ (~Happened(c, "send") /\ Happened(c, "send")') =>
                  /\ pc[c] = "install" /\ pc'[c] = "install"
                  /\ slot[c] = <<>>
            /\ (~Happened(c, "recv") /\ Happened(c, "recv")') =>
                  /\ slot[c] # <<>>
                  /\ ret'[c] = res[c]]_vars

\* The caller is at the receive and the contribution is in the slot.
C18_Witness ==
    \E c \in Calls :
        /\ pc[c] = "recv"
        /\ slot[c] = <<res[c]>>
        /\ res[c].tag = "Ok"

\* A lane of the call's pool failed to start: the host's worker was invoked
\* once more than there are lanes running.
LaneFailed(c) == Count(trace[c], "worker.run") > pool[c].lanes

\* C19: in a chunked call the pool is built, every lane started through the
\* host's worker, before any selector token is resolved; the curve token is
\* resolved and the chunked parameters are derived inside the installed work
\* unit, while the caller is inside install.  So a call that ends on an
\* unknown token has started all the lanes of its pool, thread_pool_size of
\* them when that is not 0; and a call in which a lane fails to start ends
\* with the pool-construction failure whatever its tokens are, without
\* having looked at them.
C19_PoolBeforeSelectors ==
    /\ [](\A c \in Calls :
            args[c].mode = "chunked" =>
                /\ (Happened(c, "proving_system_from_str") \/ Happened(c, "curve_from_str")
                      \/ Happened(c, "get_parameters_chunked")) =>
                      /\ pool[c].built
                      /\ ~LaneFailed(c)
                      /\ Count(trace[c], "worker.run") = pool[c].num_threads
                      /\ Count(trace[c], "worker.run") >= args[c].thread_pool_size
                      /\ args[c].thread_pool_size > 0 =>
                            Count(trace[c], "worker.run") = args[c].thread_pool_size
                      /\ IndexOf(trace[c], "derive_rng_from_seed") > 0
                      /\ IndexOf(trace[c], "derive_rng_from_seed") <
                            IndexOf(trace[c], "proving_system_from_str")
                /\ Happened(c, "curve_from_str") =>
                      /\ Happened(c, "install")
                      /\ IndexOf(trace[c], "proving_system_from_str") <
                            IndexOf(trace[c], "install")
                      /\ IndexOf(trace[c], "install") < IndexOf(trace[c], "curve_from_str")
                /\ panic[c] \in {"invalid proving system", "invalid curve_kind"} =>
                      pool[c].built
                /\ LaneFailed(c) =>
                      /\ panic[c] = "worker.run failed" /\ pc[c] = "aborted"
                      /\ ~Happened(c, "proving_system_from_str")
                      /\ ~Happened(c, "curve_from_str"))
    /\ [][\A c \in Calls :
            args[c].mode = "chunked" =>
                /\ (~Happened(c, "curve_from_str") /\ Happened(c, "curve_from_str")') =>
                      pc[c] = "install" /\ wu[c] = "resolve_curve"
                /\ (~Happened(c, "get_parameters_chunked")
                      /\ Happened(c, "get_parameters_chunked")') =>
                      pc[c] = "install" /\ wu[c] = "get_parameters"]_vars

\* A call with an unknown curve token and thread_pool_size = MaxLanes ended
\* on the token inside its work unit, all MaxLanes lanes started.
C19_Witness ==
    \E c \in Calls :
        /\ args[c].mode = "chunked" /\ UnknownCurve(c)
        /\ args[c].thread_pool_size = MaxLanes
        /\ panic[c] = "invalid curve_kind"
        /\ Count(trace[c], "worker.run") = MaxLanes
        /\ pool[c].built

\* Call d takes no part in the step.
Idle(d) ==
    /\ pc'[d] = pc[d] /\ wu'[d] = wu[d] /\ cc'[d] = cc[d]
    /\ trace'[d] = trace[d] /\ pool'[d] = pool[d]

\* Nothing a call owns changes in the step.
Untouched(d) ==
    /\ response'[d] = response[d] /\ keypair'[d] = keypair[d] /\ rng'[d] = rng[d]
    /\ current_accumulator_hash'[d] = current_accumulator_hash[d]
    /\ parameters'[d] = parameters[d] /\ engine'[d] = engine[d]
    /\ res'[d] = res[d] /\ slot'[d] = slot[d] /\ ret'[d] = ret[d]
    /\ args'[d] = args[d]

\* Both calls are inside contribute_challenge, past its size check.
BothContributing ==
    \A c \in Calls : cc[c] \in {"fill", "key_generation", "computation", "write",
                               "hash_response"}

\* C14: no state is shared across calls.  With the steps of two calls
\* interleaved in every order, each on its own challenge, parameters and
\* rng, the value contribute_challenge returns in a call (response and both
\* hashes, or the error) is the value it returns for those inputs when run
\* alone, and that is what the entry point hands back; between the steps of
\* a call its digest, buffer, key pair and rng are what its own steps made
\* them; and every step changes the buffer, key pair, rng, digest and
\* result of the one call that takes it and of no other.
C14_NoSharedState ==
    /\ [](\A c \in Calls :
            /\ cc[c] = "returned" =>
                  res[c] = contribute_challenge(args[c].challenge, parameters[c],
                                                InitialRng(c), engine[c])
            /\ pc[c] = "returned" =>
                  ret[c] = contribute_challenge(args[c].challenge, parameters[c],
                                                InitialRng(c), engine[c])
            /\ cc[c] \in {"fill", "key_generation", "computation", "write", "hash_response"} =>
                  current_accumulator_hash[c] = calculate_hash(args[c].challenge)
            /\ cc[c] \in {"key_generation", "computation"} =>
                  response[c] = PushLoop(<<>>, calculate_hash(args[c].challenge), 0,
                                         required_output_length(parameters[c]))
            /\ cc[c] \in {"computation", "write", "hash_response"} =>
                  /\ keypair[c] = key_generation(RngDraw(InitialRng(c)).value,
                                                 calculate_hash(args[c].challenge))
                  /\ rng[c] = RngDraw(InitialRng(c)).next
            /\ cc[c] \in {"check", "hash", "fill", "key_generation"} =>
                  rng[c] = InitialRng(c))
    /\ [][\A d \in Calls : Idle(d) => Untouched(d)]_vars
    /\ [][\E c \in Calls : \A d \in Calls \ {c} : Idle(d)]_vars

\* The two calls are inside contribute_challenge at the same time, with
\* challenges of different lengths, one with its key pair drawn and the
\* other not yet.
C14_Witness ==
    /\ BothContributing
    /\ Len(args[1].challenge) # Len(args[2].challenge)
    /\ cc[1] = "hash_response" /\ cc[2] = "key_generation"

\* Two chunked calls for the same power and batch size, each with a window
\* that is not empty, whose windows overlap or leave powers uncovered.
UnpartitionedPair(c, d) ==
    /\ c # d
    /\ args[c].mode = "chunked" /\ args[d].mode = "chunked"
    /\ args[c].power = args[d].power /\ args[c].batch_size = args[d].batch_size
    /\ WindowOf(args[c]) # {} /\ WindowOf(args[d]) # {}
    /\ \/ WindowOf(args[c]) \cap WindowOf(args[d]) # {}
       \/ WindowOf(args[c]) \cup WindowOf(args[d]) # 0..args[c].power

\* The parameters of a chunked call, from its own arguments alone.
OwnChunkedParameters(c) ==
    get_parameters_chunked(curve_from_str(args[c].curve_kind),
                           proving_system_from_str(args[c].proving_system),
                           args[c].power, args[c].batch_size,
                           args[c].chunk_index, args[c].chunk_size)

\* C16: no cross-chunk validation.  Of two chunked calls for the same
\* (power, batch_size) whose windows overlap or leave gaps, neither is
\* stopped on account of the other: the deriver gives each the parameters
\* of its own window, each goes on into contribute_challenge, the only
\* panic a call can end in is a lane that failed to start, and the value a
\* call returns is the value contribute_challenge has for the call's own
\* challenge, own window and own rng, whatever the other call's window is.
C16_NoCrossChunkValidation ==
    \A c, d \in Calls :
        UnpartitionedPair(c, d) =>
            /\ wu[c] # "panicked"
            /\ panic[c] \in {"", "worker.run failed"}
            /\ Happened(c, "get_parameters_chunked") =>
                  /\ parameters[c] = OwnChunkedParameters(c)
                  /\ parameters[c].valid
                  /\ cc[c] # "none"
            /\ cc[c] = "returned" =>
                  res[c] = contribute_challenge(args[c].challenge, OwnChunkedParameters(c),
                                                InitialRng(c), engine[c])
            /\ pc[c] = "returned" =>
                  ret[c] = contribute_challenge(args[c].challenge, OwnChunkedParameters(c),
                                                InitialRng(c), engine[c])

\* Two calls for the same power with overlapping, different windows both
\* returned a contribution.
C16_Witness ==
    /\ UnpartitionedPair(1, 2)
    /\ WindowOf(args[1]) \cap WindowOf(args[2]) # {}
    /\ WindowOf(args[1]) # WindowOf(args[2])
    /\ pc[1] = "returned" /\ ret[1].tag = "Ok"
    /\ pc[2] = "returned" /\ ret[2].tag = "Ok"
====
